---- MODULE Spec2Model ----
(***************************************************************************)
(* Model of the windowed multi-model forecast-selection engine,            *)
(* app/core/training.py: train_and_forecast_by_authority and               *)
(* flatten_forecast_data.                                                  *)
(*                                                                         *)
(* Numbers that are floats in the program (MAE, MAPE, forecast) are        *)
(* integers counting units of 10^-7.  A pandas Timestamp that went through *)
(* to_period('M').to_timestamp() is a record [year, month] (day 1).        *)
(* A Python value that may be None, and a cell that may be NaN, is a       *)
(* sequence: <<>> for None/NaN, <<v>> for the value v.                     *)
(***************************************************************************)
EXTENDS Integers, Sequences, FiniteSets, TLC

(* ------------------------------ bounds --------------------------------- *)
\* most rows one authority has in the input
MaxRows == 5
\* the fit outcomes are drawn from the tables 0..MaxSeed (see Mape)
MaxSeed == 3
\* the artifact directory starts in one of the layouts 0..MaxLayout
MaxLayout == 5
\* how many steps of other request handlers a behaviour counts
MaxServed == 1

(* --------------------------- Python values ----------------------------- *)
None == <<>>
NaN == <<>>
Some(v) == <<v>>
\* Python truthiness of an Optional[int]: None and 0 are falsy
Truthy(o) == o # None /\ o[1] # 0
\* float('inf'): larger than every MAPE the fit outcomes contain
Inf == 1000000000

(* --------------------------- program constants ------------------------- *)
property_types == <<"SemiDetachedIndex", "DetachedIndex", "TerracedIndex", "FlatIndex">>
\* the 20 economic indicator columns are all treated alike by the code;
\* the model carries one of them
feature_cols == <<"bank_rate">>
\* a catalogue that begins with the unlimited window
time_windows_widest_first == <<None, Some(20), Some(15), Some(10), Some(5)>>
time_windows == <<Some(5), Some(10), Some(15), Some(20), None>>
\* keys of the dict `models`, in insertion order
model_names == <<"TabPFN", "CatBoost", "LightGBM">>
forecast_horizon == 1
model_dir == "models"
Lags == <<1, 2, 3>>
MinWindowRows == 4

(* ------------------------------ sequences ------------------------------ *)
Range(s) == {s[i] : i \in DOMAIN s}

\* np.unique: the distinct values sorted (here: strings in alphabetical order
\* are the members of Alphabet in its order)
Alphabet == <<"Adur", "Bath">>
UniqueSorted(s) == SelectSeq(Alphabet, LAMBDA a : a \in {s[i] : i \in DOMAIN s})
RECURSIVE Unique(_)
\* Series.unique(): the distinct values in order of first appearance
Unique(s) ==
  IF s = <<>> THEN <<>>
  ELSE LET init == Unique(SubSeq(s, 1, Len(s) - 1))
           last == s[Len(s)]
       IN IF last \in Range(init) THEN init ELSE Append(init, last)

(* ------------------------------ timestamps ----------------------------- *)
\* Timestamp comparison a >= b
TsGe(a, b) == a.year > b.year \/ (a.year = b.year /\ a.month >= b.month)
TsLe(a, b) == TsGe(b, a)

\* pd.to_datetime(Date).dt.to_period('M').dt.to_timestamp(): first of the month
ToPeriod(date) == [year |-> date.y, month |-> date.m]

\* ts - pd.DateOffset(years=n), for a first-of-month timestamp
SubYears(ts, n) == [year |-> ts.year - n, month |-> ts.month]

\* an addition that does not carry into the year
AddMonthsNoCarry(ts, n) == [year |-> ts.year, month |-> ts.month + n]
\* ts + pd.DateOffset(months=n), for a first-of-month timestamp
AddMonths(ts, n) ==
  LET total == (ts.month - 1) + n
  IN [year |-> ts.year + (total \div 12), month |-> (total % 12) + 1]

\* strftime('%m/%Y'): month zero-padded to two digits, a slash, the year
StrfMonthYear(ts) ==
  (IF ts.month < 10 THEN "0" \o ToString(ts.month) ELSE ToString(ts.month))
    \o "/" \o ToString(ts.year)

(* ------------------------------- rounding ------------------------------ *)
\* Python round(x, ndigits) on a value counted in units of 10^-7:
\* to the nearest multiple of 10^(7-ndigits), halves to even
Pow10(n) == IF n = 0 THEN 1 ELSE IF n = 1 THEN 10 ELSE IF n = 2 THEN 100 ELSE 1000
Round(x, ndigits) ==
  LET unit == Pow10(7 - ndigits)
      q == x \div unit
      r == x % unit
  IN IF 2 * r > unit THEN (q + 1) * unit
     ELSE IF 2 * r < unit THEN q * unit
     ELSE IF q % 2 = 0 THEN q * unit ELSE (q + 1) * unit

(* ------------------------------ the input ------------------------------ *)
\* RegionName values of the input
AuthorityNames == <<"Adur", "Bath">>
Columns == Range(feature_cols) \cup Range(property_types)

\* month number n (months since year 0) as a calendar date 'YYYY-MM-DD'
DateOf(n, day) == [y |-> n \div 12, m |-> (n % 12) + 1, d |-> day]

\* One input record: RegionName, Date and one cell per column.  Row k of an
\* authority (k = 1 is the earliest) holds the value base + k in every column,
\* except a NaN in FlatIndex where hole says so.
InputRow(name, n, day, k, hole) ==
  [RegionName |-> name,
   Date |-> DateOf(n, day),
   cols |-> [c \in Columns |->
               IF hole /\ c = "FlatIndex" THEN NaN ELSE Some(100 + k)]]

\* the n rows of one authority, gap months apart, ending in month last;
\* chronological, or latest first when reversed
AuthorityRows(name, n, gap, last, hole, reversed) ==
  [i \in 1..n |->
     LET k == IF reversed THEN n + 1 - i ELSE i
     IN InputRow(name, last - gap * (n - k), IF k % 2 = 0 THEN 15 ELSE 1,
                 k, hole /\ k = 1)]

RECURSIVE Interleave(_, _)
Interleave(s, t) ==
  IF s = <<>> THEN t
  ELSE IF t = <<>> THEN s
  ELSE <<Head(t), Head(s)>> \o Interleave(Tail(s), Tail(t))

\* November and December 2024
LastMonths == {2024 * 12 + 10, 2024 * 12 + 11}
\* monthly rows, or rows 20 months apart (4 of them in a 5-year window)
Gaps == {1, 20}

\* The input datasets.  The first authority has n1 rows, gap
\* months apart, the latest in month last, the earliest with a NaN in FlatIndex
\* when hole; the second authority has n2 monthly rows (0: it is absent) and
\* its series ends one month later than the first's; mixed: the rows of the two
\* alternate, the second authority's first, otherwise the first authority's
\* block comes first.
\* One authority: every length, both gaps, both last months, with and without
\* the NaN (monthly rows).
SingleParams ==
  {q \in [n1 : 3..MaxRows, n2 : {0}, gap : Gaps, last : LastMonths,
          hole : BOOLEAN, mixed : {FALSE}] : q.hole => q.gap = 1}
\* Two authorities: the first with the most rows, the second of every length.
PairParams ==
  [n1 : {MaxRows}, n2 : 3..MaxRows, gap : {1}, last : {2024 * 12 + 10},
   hole : {FALSE}, mixed : BOOLEAN]
DataParams == SingleParams \cup PairParams

MkData(q) ==
  LET a == AuthorityRows(AuthorityNames[1], q.n1, q.gap, q.last, q.hole, FALSE)
      b == AuthorityRows(AuthorityNames[2], q.n2, q.gap, q.last + 1, FALSE, TRUE)
  IN IF q.mixed THEN Interleave(a, b) ELSE a \o b

\* a record without one of its keys (RegionName, Date or a column)
WithoutKey(row, key) ==
  IF key \in DOMAIN row
  THEN [f \in DOMAIN row \ {key} |-> row[f]]
  ELSE [RegionName |-> row.RegionName, Date |-> row.Date,
        cols |-> [c \in DOMAIN row.cols \ {key} |-> row.cols[c]]]

\* Datasets in which no record has a given key: the full-length monthly series
\* of one authority without Date, RegionName or one of the property types.
DroppedKeys == {"Date", "RegionName"} \cup Range(property_types)
LackingData(key) ==
  LET rows == AuthorityRows(AuthorityNames[1], MaxRows, 1, 2024 * 12 + 10, FALSE, FALSE)
  IN [i \in DOMAIN rows |-> WithoutKey(rows[i], key)]

(* ----------------------------- the DataFrame --------------------------- *)
\* df.columns of pd.DataFrame(rows): every key some record has
FrameColumns(rows) ==
  UNION {(DOMAIN rows[i] \ {"cols", "period"}) \cup DOMAIN rows[i].cols : i \in DOMAIN rows}

\* pd.DataFrame(data): a record without a column of the frame gets NaN there
MakeFrame(rows) ==
  LET columns == UNION {DOMAIN rows[i].cols : i \in DOMAIN rows}
  IN [i \in DOMAIN rows |->
        [f \in DOMAIN rows[i] |->
           IF f = "cols"
           THEN [c \in columns |->
                   IF c \in DOMAIN rows[i].cols THEN rows[i].cols[c] ELSE NaN]
           ELSE rows[i][f]]]

\* df.empty
IsEmptyNever(rows) == FALSE
IsEmpty(rows) == rows = <<>>

required_columns == {"Date", "RegionName"}

\* prop_type not in df_authority
MissingColumnNever(frame, col) == FALSE
MissingColumn(frame, col) == col \notin FrameColumns(frame)

\* repr of a set of strings in one of its iteration orders
SetRepr(order) ==
  IF Len(order) = 1 THEN "{'" \o order[1] \o "'}"
  ELSE "{'" \o order[1] \o "', '" \o order[2] \o "'}"
Orders(set) == {o \in UNION {[1..n -> set] : n \in 1..2} : Range(o) = set /\ Len(o) = Cardinality(set)}

\* df.assign(period=...): every row gets its month's first-day timestamp
AssignPeriod(rows) ==
  [i \in DOMAIN rows |->
     [RegionName |-> rows[i].RegionName, Date |-> rows[i].Date,
      cols |-> rows[i].cols, period |-> ToPeriod(rows[i].Date)]]

\* df[df['RegionName'] == authority]
FilterAuthority(df, authority) ==
  SelectSeq(df, LAMBDA r : r.RegionName = authority)

RECURSIVE SortByPeriod(_)
\* df.sort_values('period'): ascending by period (insertion of the last row
\* into the sorted rest).  The inputs have one row per authority and month, so
\* the order pandas gives to rows of equal period does not arise.
SortByPeriod(df) ==
  IF df = <<>> THEN <<>>
  ELSE LET rest == SortByPeriod(SubSeq(df, 1, Len(df) - 1))
           x == df[Len(df)]
           before == SelectSeq(rest, LAMBDA r : TsLe(r.period, x.period))
           after == SelectSeq(rest, LAMBDA r : ~TsLe(r.period, x.period))
       IN before \o <<x>> \o after

\* a filter that leaves out the row dated exactly at start_date
FilterWindowExclusive(df, last_date, time_window) ==
  IF time_window # None
  THEN SelectSeq(df, LAMBDA r : ~TsLe(r.period, SubYears(last_date, time_window[1])))
  ELSE df

\* df_time[df_time['period'] >= start_date] for a numeric window, the whole
\* frame for the window None
FilterWindow(df, last_date, time_window) ==
  IF time_window # None
  THEN LET start_date == SubYears(last_date, time_window[1])
       IN SelectSeq(df, LAMBDA r : TsGe(r.period, start_date))
  ELSE df

\* feature_cols + [prop_type]
AllFeatures(prop_type) == feature_cols \o <<prop_type>>

\* name of a lag column, f'{col}_lag{lag}'
LagName(col, lag) == col \o "_lag" \o ToString(lag)

\* lag_features: the lag column names, columns outer, lags inner
LagFeatures(prop_type) ==
  LET af == AllFeatures(prop_type)
  IN [j \in 1..(Len(af) * Len(Lags)) |->
        LagName(af[((j - 1) \div Len(Lags)) + 1], Lags[((j - 1) % Len(Lags)) + 1])]

\* a shift by one row whatever the lag
ShiftByOne(df, col, lag, i) == IF i - 1 >= 1 THEN df[i - 1].cols[col] ELSE NaN

\* Series.shift(lag) at row i: the value lag rows earlier, NaN for the first rows
Shift(df, col, lag, i) == IF i - lag >= 1 THEN df[i - lag].cols[col] ELSE NaN

\* the loop adding df[f'{col}_lag{lag}'] = df[col].shift(lag) for every column
\* of all_features and every lag
AddLags(df, prop_type) ==
  LET af == AllFeatures(prop_type)
      names == {LagName(af[a], Lags[l]) : a \in DOMAIN af, l \in DOMAIN Lags}
  IN [i \in DOMAIN df |->
        [RegionName |-> df[i].RegionName, Date |-> df[i].Date,
         period |-> df[i].period,
         cols |-> [c \in DOMAIN df[i].cols \cup names |->
                     IF c \in DOMAIN df[i].cols THEN df[i].cols[c]
                     ELSE LET a == CHOOSE a \in DOMAIN af :
                                     \E l \in DOMAIN Lags : c = LagName(af[a], Lags[l])
                              l == CHOOSE l \in DOMAIN Lags : c = LagName(af[a], Lags[l])
                          IN Shift(df, af[a], Lags[l], i)]]]

\* df.dropna(): the rows without a NaN in any column
DropNa(df) == SelectSeq(df, LAMBDA r : \A c \in DOMAIN r.cols : r.cols[c] # NaN)

(* ------------------------------ dicts ---------------------------------- *)
\* A Python dict is the sequence of its <<key, value>> items in insertion order.
EmptyDict == <<>>
DictHas(d, k) == \E i \in DOMAIN d : d[i][1] = k
DictGet(d, k) == d[CHOOSE i \in DOMAIN d : d[i][1] = k][2]
\* d[k] = v: an existing key keeps its position, a new key goes last
DictSet(d, k, v) ==
  IF DictHas(d, k)
  THEN [i \in DOMAIN d |-> IF d[i][1] = k THEN <<k, v>> ELSE d[i]]
  ELSE Append(d, <<k, v>>)

(* --------------------------- the artifact store ------------------------ *)
\* 'all' for the unlimited window: time_window if time_window else 'all'
WindowLabel(time_window) ==
  IF Truthy(time_window) THEN ToString(time_window[1]) ELSE "all"

\* a file name that stops at _model
ModelFileNoSuffix(authority, prop_type, model_name, time_window) ==
  model_dir \o "/" \o authority \o "_" \o prop_type \o "_" \o model_name
    \o "_" \o WindowLabel(time_window) \o "_model"

\* os.path.join(model_dir, f"{authority}_{prop_type}_{model_name}_{window}_model.pkl")
ModelFile(authority, prop_type, model_name, time_window) ==
  model_dir \o "/" \o authority \o "_" \o prop_type \o "_" \o model_name
    \o "_" \o WindowLabel(time_window) \o "_model.pkl"

\* an existence check on a name no file has
PathExistsOtherName(fs, model_file) == (model_file \o ".tmp") \in fs
\* an existence check with the condition inverted
PathExistsInverted(fs, model_file) == model_file \notin fs
\* os.path.exists(model_file) on the directory contents fs
PathExists(fs, model_file) == model_file \in fs

\* The artifact directory before the run, by layout: which combinations
\* (authority a, property type p, window w, model m; all by index) have a file.
Cached(layout, a, p, w, m) ==
  CASE layout = 0 -> FALSE
    [] layout = 1 -> TRUE
    [] layout = 2 -> m = 1
    [] layout = 3 -> w <= 2
    [] layout = 4 -> a = 2
    [] layout = 5 -> ~(w = 1 /\ m = 3)
    [] OTHER -> p = 2

MkFiles(layout) ==
  {ModelFile(AuthorityNames[a], property_types[p], model_names[m], time_windows[w]) :
     <<a, p, w, m>> \in {t \in (DOMAIN AuthorityNames) \X (DOMAIN property_types)
                                 \X (DOMAIN time_windows) \X (DOMAIN model_names) :
                           Cached(layout, t[1], t[2], t[3], t[4])}}

(* ------------------------------ the models ----------------------------- *)
\* What fitting and evaluating a regressor yields is decided by the library
\* and the data; a run follows one of the outcome tables 0..MaxSeed.
\* Candidate number of (window w, model m), by index, in iteration order.
CandidateNo(w, m) == (w - 1) * Len(model_names) + m

\* mean_absolute_percentage_error(y_test, model.predict(X_test)) * 100 for the
\* model fitted on the window's training rows
Mape(sd, p, w, m) ==
  2500000 + 1000450 * ((((sd % 3) * w) + ((sd \div 3) * m) + p) % 3)

\* mean_absolute_error(y_test, y_pred) of the same fit
Mae(sd, p, w, m) == 1000000 + 12345 * CandidateNo(w, m) + 7 * sd

\* model.predict(last_data)[0] of a fitted model, last_data being the lag
\* features of one row
Predict(sd, model, last_data) ==
  10000000 * last_data[LagName(model.prop_type, 1)][1]
    + 111 * CandidateNo(model.window_i, model.model_i) + 5 + sd

\* datetime.now().strftime("%Y-%m-%d")
Today == "2026-11-05"

(* ------------------------------ the state ------------------------------ *)
VARIABLES
  data,             \* the argument `data`: the input records
  files,            \* the files of model_dir
  seed,             \* which outcome table the fits of this run follow
  pc,               \* where the run is: start, authority, prop, window, model, select, return, done
  df,               \* the DataFrame with its period column
  authorities,      \* df['RegionName'].unique()
  authority_i,      \* position of the loop over authorities
  prop_i,           \* position of the loop over property_types
  window_i,         \* position of the loop over time_windows
  model_i,          \* position of the loop over models.items()
  df_auth_prop,     \* the authority's rows sorted by period
  last_date,
  df_window,        \* df_time as the window filter leaves it (lines 87-91)
  df_time,          \* the window's rows, lagged, without incomplete rows
  train_size,
  best_model_name, best_mape, best_model, best_time_window, best_metrics,
  results,          \* authority -> property type -> metrics
  fitted,           \* every model.fit call of the run so far, in order
  ret,              \* the outcome of the call: running, returned list, or raised error
  heap,             \* the regressor instances created so far, by identity
  models,           \* the dict `models` of the current window: name -> instance
  running,          \* the coroutine the event loop is executing, None between callbacks
  served            \* steps other request handlers have taken on the event loop

vars == <<data, files, seed, pc, df, authorities, authority_i, prop_i, window_i,
          model_i, df_auth_prop, last_date, df_window, df_time, train_size, best_model_name,
          best_mape, best_model, best_time_window, best_metrics, results, fitted, ret,
          heap, models, running, served>>

inputVars == <<data, files, seed>>
bestVars == <<best_model_name, best_mape, best_model, best_time_window, best_metrics>>
frameVars == <<df_auth_prop, last_date, df_window, df_time, train_size>>
modelVars == <<heap, models>>

authority == authorities[authority_i]
prop_type == property_types[prop_i]
time_window == time_windows[window_i]
model_name == model_names[model_i]

Datasets ==
  {<<>>} \cup {MkData(q) : q \in DataParams} \cup {LackingData(k) : k \in DroppedKeys}

Init ==
  /\ data \in Datasets
  /\ files \in {MkFiles(l) : l \in 0..MaxLayout}
  /\ seed \in 0..MaxSeed
  /\ pc = "start"
  /\ df = <<>>
  /\ authorities = <<>>
  /\ authority_i = 0 /\ prop_i = 0 /\ window_i = 0 /\ model_i = 0
  /\ df_auth_prop = <<>> /\ last_date = None
  /\ df_window = <<>> /\ df_time = <<>> /\ train_size = 0
  /\ best_model_name = None /\ best_mape = Inf /\ best_model = None
  /\ best_time_window = None /\ best_metrics = EmptyDict
  /\ results = EmptyDict
  /\ fitted = <<>>
  /\ ret = [status |-> "running"]
  /\ heap = <<>> /\ models = EmptyDict
  /\ running = None
  /\ served = 0

(* ------------------------------ flattening ----------------------------- *)
\* one flat record of flatten_forecast_data
FlatRecord(local_authority, prop, metrics) ==
  [local_authority |-> local_authority,
   property_type |-> prop,
   mae |-> Round(metrics.mae, 4),
   mape |-> Round(metrics.mape, 4),
   forecast |-> Round(metrics.forecast, 6),
   forecast_date |-> metrics.forecast_date,
   best_model |-> metrics.best_model,
   best_time_window |-> metrics.best_time_window,
   model_file |-> metrics.model_file]

RECURSIVE flatten_forecast_data(_)
\* the comprehension over nested_data.items() and, inside, prop_data.items()
flatten_forecast_data(nested_data) ==
  IF nested_data = <<>> THEN <<>>
  ELSE LET local_authority == Head(nested_data)[1]
           prop_data == Head(nested_data)[2]
       IN [i \in DOMAIN prop_data |->
             FlatRecord(local_authority, prop_data[i][1], prop_data[i][2])]
          \o flatten_forecast_data(Tail(nested_data))

(* ------------------------------ raising -------------------------------- *)
\* a handler that hands back the records completed before the error
RaisedWithPartial(msg, res) ==
  [status |-> "error", error |-> msg, value |-> flatten_forecast_data(res)]

\* raise ValueError(msg): nothing in the function catches it, the call ends
\* with the error and without a return value
Raised(msg, res) == [status |-> "error", error |-> msg, value |-> None]

Raise(msg) ==
  /\ pc' = "done"
  /\ ret' = Raised(msg, results)
  /\ running' = None

NotEnoughData(p, a, w) ==
  "Not enough data for " \o p \o " in " \o a \o " with " \o WindowLabel(w) \o " years"
NotEnoughAfterLag(p, a, w) ==
  "Not enough data after lag creation for " \o p \o " in " \o a \o " with "
    \o WindowLabel(w) \o " years"
NoValidModel(p, a) == "No valid model found for " \o p \o " in " \o a

(* ------------------------------ the run -------------------------------- *)
\* lines 39-65: build the frame, validate it, add the period column
Start ==
  /\ pc = "start"
  /\ IF IsEmpty(data)
     THEN /\ Raise("No data provided")
          /\ UNCHANGED <<df, authorities, authority_i>>
     ELSE IF ~(required_columns \subseteq FrameColumns(data))
     THEN /\ \E order \in Orders(required_columns \ FrameColumns(data)) :
               Raise("Missing required columns: " \o SetRepr(order))
          /\ UNCHANGED <<df, authorities, authority_i>>
     ELSE /\ df' = AssignPeriod(MakeFrame(data))
          /\ authorities' = Unique([i \in DOMAIN data |-> data[i].RegionName])
          /\ authority_i' = 1
          /\ pc' = "authority"
          /\ running' = Some("create_training_job")
          /\ UNCHANGED ret
  /\ UNCHANGED <<inputVars, served, modelVars, prop_i, window_i, model_i, frameVars, bestVars,
                 results, fitted>>

\* lines 67-72 and, when the authorities are exhausted, line 169
NextAuthority ==
  /\ pc = "authority"
  /\ IF authority_i > Len(authorities)
     THEN /\ pc' = "done"
          /\ ret' = [status |-> "ok", value |-> flatten_forecast_data(results)]
          /\ running' = None
          /\ UNCHANGED <<results, prop_i>>
     ELSE IF FilterAuthority(df, authority) = <<>>
     THEN /\ Raise("No data for authority: " \o authority)
          /\ UNCHANGED <<results, prop_i>>
     ELSE /\ results' = DictSet(results, authority, EmptyDict)
          /\ prop_i' = 1
          /\ pc' = "prop"
          /\ UNCHANGED <<ret, running>>
  /\ UNCHANGED <<inputVars, served, modelVars, df, authorities, authority_i, window_i, model_i,
                 frameVars, bestVars, fitted>>

\* lines 74-85: one property type of the authority begins
NextPropType ==
  /\ pc = "prop"
  /\ LET df_authority == FilterAuthority(df, authority)
     IN IF MissingColumn(df_authority, prop_type)
        THEN /\ Raise("Missing '" \o prop_type \o "' for authority: " \o authority)
             /\ UNCHANGED <<df_auth_prop, last_date, bestVars, window_i>>
        ELSE /\ df_auth_prop' = SortByPeriod(df_authority)
             /\ last_date' = Some(df_auth_prop'[Len(df_auth_prop')].period)
             /\ best_model_name' = None
             /\ best_mape' = Inf
             /\ best_model' = None
             /\ best_time_window' = None
             /\ best_metrics' = EmptyDict
             /\ window_i' = 1
             /\ pc' = "window"
             /\ UNCHANGED <<ret, running>>
  /\ UNCHANGED <<inputVars, served, modelVars, df, authorities, authority_i, prop_i, model_i,
                 df_window, df_time, train_size, results, fitted>>

\* a regressor instance before its first fit
Unfitted(name) == [name |-> name, fit |-> None]

\* a dict that is built once and kept from window to window
ReusedModels(old, n) ==
  IF old = EmptyDict THEN [i \in DOMAIN model_names |-> <<model_names[i], n + i>>] ELSE old

\* the dict literal of lines 115-119: three instances constructed anew, which
\* take the identities after the n there are
NewModels(old, n) == [i \in DOMAIN model_names |-> <<model_names[i], n + i>>]

\* the heap with the instances of the dict d that it does not hold yet
Allocate(h, d) ==
  LET ids == {d[i][2] : i \in DOMAIN d}
      top == CHOOSE n \in ids \cup {Len(h)} : \A m \in ids \cup {Len(h)} : m <= n
  IN [id \in 1..top |->
        IF id <= Len(h) THEN h[id]
        ELSE Unfitted(d[CHOOSE i \in DOMAIN d : d[i][2] = id][1])]

\* len(df_time) < 4
TooFewRows(frame) == Len(frame) < MinWindowRows
\* a check that lets a frame of forecast_horizon rows through
TooFewLaggedOffByOne(frame) == Len(frame) < forecast_horizon
\* len(df_time) < forecast_horizon + 1
TooFewLagged(frame) == Len(frame) < forecast_horizon + 1

\* lines 87-119: filter the window, check it, lag it, check it again, split
NextWindow ==
  /\ pc = "window"
  /\ df_window' = FilterWindow(df_auth_prop, last_date[1], time_window)
  /\ LET filtered == df_window'
         lagged == DropNa(AddLags(filtered, prop_type))
     IN IF TooFewRows(filtered)
        THEN /\ Raise(NotEnoughData(prop_type, authority, time_window))
             /\ UNCHANGED <<df_time, train_size, model_i, modelVars>>
        ELSE IF ~(Range(AllFeatures(prop_type)) \subseteq FrameColumns(filtered))
        THEN \* df_time[col] of a column the frame does not have
             /\ Raise("KeyError: '"
                        \o (CHOOSE c \in Range(AllFeatures(prop_type)) :
                              c \notin FrameColumns(filtered)) \o "'")
             /\ UNCHANGED <<df_time, train_size, model_i, modelVars>>
        ELSE IF TooFewLagged(lagged)
        THEN /\ Raise(NotEnoughAfterLag(prop_type, authority, time_window))
             /\ df_time' = lagged
             /\ UNCHANGED <<train_size, model_i, modelVars>>
        ELSE /\ df_time' = lagged
             /\ train_size' = Len(lagged) - forecast_horizon
             /\ models' = NewModels(models, Len(heap))
             /\ heap' = Allocate(heap, models')
             /\ model_i' = 1
             /\ pc' = "model"
             /\ UNCHANGED <<ret, running>>
  /\ UNCHANGED <<inputVars, served, df, authorities, authority_i, prop_i, window_i,
                 df_auth_prop, last_date, bestVars, results, fitted>>

\* the end of one pass of the loop over the models: the next model, or the
\* next window, or past the last window
AdvanceModel ==
  IF model_i < Len(model_names)
  THEN /\ model_i' = model_i + 1
       /\ UNCHANGED <<window_i, pc>>
  ELSE /\ model_i' = model_i
       /\ IF window_i < Len(time_windows)
          THEN /\ window_i' = window_i + 1
               /\ pc' = "window"
          ELSE /\ window_i' = window_i
               /\ pc' = "select"

\* lines 127-128: the artifact exists, continue
SkipCached ==
  /\ pc = "model"
  /\ PathExists(files, ModelFile(authority, prop_type, model_name, time_window))
  /\ AdvanceModel
  /\ UNCHANGED <<inputVars, served, modelVars, df, authorities, authority_i, prop_i, frameVars,
                 bestVars, results, fitted, ret, running>>

\* a comparison that also lets an equal MAPE replace the best
IsBetterOrEqual(mape, best) == mape <= best
\* mape < best_mape
IsBetter(mape, best) == mape < best

\* lines 129-139: fit, predict the holdout rows, keep the model if it is better
FitModel ==
  /\ pc = "model"
  /\ ~PathExists(files, ModelFile(authority, prop_type, model_name, time_window))
  /\ LET id == DictGet(models, model_name)
         model == [name |-> model_name, authority |-> authority,
                   prop_type |-> prop_type, window_i |-> window_i,
                   model_i |-> model_i, fit_rows |-> train_size,
                   train_dates |-> [k \in 1..train_size |-> df_time[k].Date]]
         mape == Mape(seed, prop_i, window_i, model_i)
     IN /\ fitted' = Append(fitted, model)
        /\ heap' = [heap EXCEPT ![id] = [name |-> heap[id].name, fit |-> Some(model)]]
        /\ IF IsBetter(mape, best_mape)
           THEN /\ best_mape' = mape
                /\ best_model_name' = Some(model_name)
                /\ best_model' = Some(id)
                /\ best_time_window' = time_window
                /\ best_metrics' = [mae |-> Mae(seed, prop_i, window_i, model_i),
                                    mape |-> mape]
           ELSE UNCHANGED bestVars
  /\ AdvanceModel
  /\ UNCHANGED <<inputVars, served, df, authorities, authority_i, prop_i, frameVars,
                 results, ret, running, models>>

\* lines 141-167: no model, or the forecast of the best model and its record
Forecast ==
  /\ pc = "select"
  /\ IF best_model = None
     THEN /\ Raise(NoValidModel(prop_type, authority))
          /\ UNCHANGED <<results, prop_i, authority_i>>
     ELSE LET df_auth_prop_full == DropNa(AddLags(df_auth_prop, prop_type))
              lag_features == LagFeatures(prop_type)
              last_row == df_auth_prop_full[Len(df_auth_prop_full)]
              last_data == [c \in Range(lag_features) |-> last_row.cols[c]]
              forecast == Predict(seed, heap[best_model[1]].fit[1], last_data)
              forecast_date == AddMonths(last_date[1], 1)
              metrics ==
                [mae |-> best_metrics.mae,
                 mape |-> best_mape,
                 forecast |-> forecast,
                 forecast_date |-> StrfMonthYear(forecast_date),
                 best_model |-> best_model_name[1],
                 best_time_window |-> best_time_window,
                 model_file |-> ModelFile(authority, prop_type, best_model_name[1],
                                          best_time_window),
                 training_date |-> Today]
          IN /\ results' = DictSet(results, authority,
                                   DictSet(DictGet(results, authority), prop_type, metrics))
             /\ IF prop_i < Len(property_types)
                THEN /\ prop_i' = prop_i + 1
                     /\ pc' = "prop"
                     /\ UNCHANGED authority_i
                ELSE /\ prop_i' = prop_i
                     /\ authority_i' = authority_i + 1
                     /\ pc' = "authority"
             /\ UNCHANGED <<ret, running>>
  /\ UNCHANGED <<inputVars, served, modelVars, df, authorities, window_i, model_i, frameVars,
                 bestVars, fitted>>

Next ==
  \/ Start
  \/ NextAuthority
  \/ NextPropType
  \/ NextWindow
  \/ SkipCached
  \/ FitModel
  \/ Forecast

Spec == Init /\ [][Next]_vars

(* ------------------------------ the event loop ------------------------- *)
\* create_training_job awaits the engine directly, and the engine has no await
\* of its own: from its first statement to its return or raise the event loop
\* executes nothing else.  Another request handler (the root handler, say)
\* takes a step only when the loop is between callbacks.
OtherHandler ==
  /\ running = None
  /\ served < MaxServed
  /\ served' = served + 1
  /\ UNCHANGED <<inputVars, modelVars, pc, df, authorities, authority_i, prop_i, window_i,
                 model_i, frameVars, bestVars, results, fitted, ret, running>>

LoopNext == Next \/ OtherHandler
LoopSpec == Init /\ [][LoopNext]_vars

(* ======================================================================= *)
(* The properties.  They speak about the input, the artifact directory and *)
(* the outcome tables directly, not through the run's own bookkeeping.     *)
(* ======================================================================= *)
Catalogue == <<"SemiDetachedIndex", "DetachedIndex", "TerracedIndex", "FlatIndex">>
WindowYears == <<5, 10, 15, 20>>
Families == <<"TabPFN", "CatBoost", "LightGBM">>
\* the (window, family) combinations, by index, 5 windows by 3 families
Combos == (1..5) \X (1..3)
\* iteration order: windows outer, families inner
Precedes(c, d) == c[1] < d[1] \/ (c[1] = d[1] /\ c[2] < d[2])

\* every record has the date, the region and the four property types
WellFormed ==
  \A i \in DOMAIN data :
    {"Date", "RegionName"} \subseteq DOMAIN data[i] /\ Range(Catalogue) \subseteq DOMAIN data[i].cols
Named == {i \in DOMAIN data : "RegionName" \in DOMAIN data[i]}
InputAuthorities == {data[i].RegionName : i \in Named}
RowsOf(a) == {i \in Named : data[i].RegionName = a}
MonthNo(i) == data[i].Date.y * 12 + data[i].Date.m - 1
LatestMonth(a) == CHOOSE n \in {MonthNo(i) : i \in RowsOf(a)} :
                    \A i \in RowsOf(a) : MonthNo(i) <= n
PropIndex(p) == CHOOSE k \in DOMAIN Catalogue : Catalogue[k] = p

\* the artifact name of a combination
ArtifactOf(a, p, c) ==
  "models/" \o a \o "_" \o p \o "_" \o Families[c[2]] \o "_"
    \o (IF c[1] = 5 THEN "all" ELSE ToString(WindowYears[c[1]])) \o "_model.pkl"
\* the combinations of a pair whose artifact is absent, those the run evaluates
Evaluated(a, p) == {c \in Combos : ArtifactOf(a, p, c) \notin files}
MapeOf(p, c) == Mape(seed, PropIndex(p), c[1], c[2])
MaeOf(p, c) == Mae(seed, PropIndex(p), c[1], c[2])
\* the evaluated combinations of minimal MAPE
Minimal(a, p) ==
  LET ev == Evaluated(a, p)
  IN {c \in ev : \A d \in ev : MapeOf(p, c) <= MapeOf(p, d)}
\* the first of them in iteration order
FirstMinimal(a, p) ==
  LET least == Minimal(a, p)
  IN CHOOSE c \in least : \A d \in least : d = c \/ Precedes(c, d)
\* the window of a combination as the record holds it
WindowOf(c) == IF c[1] = 5 THEN None ELSE Some(WindowYears[c[1]])

\* the (authority, property type, metrics) triples of the nested results
Emitted ==
  {<<results[i][1], results[i][2][j][1], results[i][2][j][2]>> :
     <<i, j>> \in {t \in (DOMAIN results) \X (1..4) : t[2] \in DOMAIN results[t[1]][2]}}
Returned == IF ret.status = "ok" THEN {ret.value[k] : k \in DOMAIN ret.value} ELSE {}

\* the rows of an authority inside a window: all of them for the fifth window,
\* else those not older than the latest month minus the window's years
WindowRows(a, w) ==
  IF w = 5 THEN RowsOf(a)
  ELSE LET oldest == LatestMonth(a) - 12 * WindowYears[w]
       IN {i \in RowsOf(a) : MonthNo(i) >= oldest}
WindowRowCount(a, w) == Cardinality(WindowRows(a, w))
\* chronological position of every row of rs among them
Positions(rs) ==
  [i \in rs |->
     Cardinality({j \in rs : MonthNo(j) < MonthNo(i) \/ (MonthNo(j) = MonthNo(i) /\ j <= i)})]
\* the rows of the window that are complete after lagging: a row with three
\* predecessors, no NaN of its own, and none in the lagged columns of those
\* three predecessors
LaggedRowCount(a, p, w) ==
  LET rs == WindowRows(a, w)
      pos == Positions(rs)
      clean == {i \in rs : \A c \in DOMAIN data[i].cols : data[i].cols[c] # NaN}
      usable == {i \in rs : data[i].cols[p] # NaN /\ data[i].cols["bank_rate"] # NaN}
  IN Cardinality({i \in clean :
                    /\ pos[i] > 3
                    /\ \A j \in rs \ usable : ~(pos[j] < pos[i] /\ pos[j] >= pos[i] - 3)})
ShortWindow(a, p, w) == WindowRowCount(a, w) < 4 \/ LaggedRowCount(a, p, w) < forecast_horizon + 1
ShortWindows(a, p) == {w \in 1..5 : ShortWindow(a, p, w)}
Sufficient(a, p) == ShortWindows(a, p) = {}

\* the pair the run is working on, or stopped at
AtPair == authority_i \in DOMAIN authorities /\ prop_i \in DOMAIN Catalogue
                /\ pc \in {"window", "model", "select", "done"}
                /\ \A i \in DOMAIN data : prop_type \in DOMAIN data[i].cols

\* C1: the best model, best window, MAE and MAPE of every emitted record are
\* those of the first combination, in iteration order, among the evaluated
\* combinations of minimal MAPE; a later equal MAPE does not replace it.
C1_FirstMinimumWins ==
  pc = "done" =>
    /\ \A e \in Emitted :
         LET c == FirstMinimal(e[1], e[2])
         IN /\ e[3].best_model = Families[c[2]]
            /\ e[3].best_time_window = WindowOf(c)
            /\ e[3].mape = MapeOf(e[2], c)
            /\ e[3].mae = MaeOf(e[2], c)
    /\ \A r \in Returned :
         LET c == FirstMinimal(r.local_authority, r.property_type)
         IN /\ r.best_model = Families[c[2]]
            /\ r.best_time_window = WindowOf(c)
            /\ r.mape = Round(MapeOf(r.property_type, c), 4)
            /\ r.mae = Round(MaeOf(r.property_type, c), 4)

\* a returned record whose pair had two evaluated combinations tied at the
\* minimum, with an evaluated combination of larger MAPE before them
C1_Witness ==
  \E r \in Returned :
    LET least == Minimal(r.local_authority, r.property_type)
        c == FirstMinimal(r.local_authority, r.property_type)
    IN /\ Cardinality(least) >= 2
       /\ \E b \in Evaluated(r.local_authority, r.property_type) \ least : Precedes(b, c)
       /\ r.best_model = Families[c[2]] /\ r.best_time_window = WindowOf(c)

\* the combination a fitted model instance belongs to has no artifact
Uncached(model) ==
  ArtifactOf(model.authority, model.prop_type, <<model.window_i, model.model_i>>) \notin files

\* C2: a combination whose artifact exists is not fitted, not evaluated and is
\* not the best of its pair, whatever the other artifacts are.
C2_CachedNeverFittedNorBest ==
  /\ fitted # <<>> => Uncached(fitted[Len(fitted)])
  /\ best_model # None => Uncached(heap[best_model[1]].fit[1])
  /\ pc = "done" =>
       /\ \A k \in DOMAIN fitted : Uncached(fitted[k])
       /\ \A e \in Emitted :
            \A c \in Combos :
              e[3].best_model = Families[c[2]] /\ e[3].best_time_window = WindowOf(c)
                => ArtifactOf(e[1], e[2], c) \notin files
       /\ \A r \in Returned :
            \A c \in Combos :
              r.best_model = Families[c[2]] /\ r.best_time_window = WindowOf(c)
                => ArtifactOf(r.local_authority, r.property_type, c) \notin files

\* a returned record of a pair that had both cached and evaluated combinations,
\* a cached one among them having a smaller MAPE than every evaluated one
C2_Witness ==
  \E r \in Returned :
    LET a == r.local_authority
        p == r.property_type
        ev == Evaluated(a, p)
    IN /\ ev # {}
       /\ \E c \in Combos \ ev : \A d \in ev : MapeOf(p, c) < MapeOf(p, d)

\* every combination of every authority of the input has its artifact
AllArtifactsExist ==
  \A a \in InputAuthorities : \A p \in Range(Catalogue) : Evaluated(a, p) = {}
EverySufficient ==
  data # <<>> /\ WellFormed /\ \A a \in InputAuthorities : \A p \in Range(Catalogue) : Sufficient(a, p)

\* C3: a run on data that is sufficient, with every artifact present, fits
\* nothing and returns one record per pair.
C3_RerunAllCachedReturnsSelection ==
  pc = "done" /\ AllArtifactsExist /\ EverySufficient
    => /\ Len(fitted) = 0
       /\ ret.status = "ok"
       /\ Len(ret.value) = 4 * Cardinality(InputAuthorities)

\* C4: after a run that returned, an artifact exists at the model path of
\* every record.
C4_WinnerPersisted ==
  \A r \in Returned : r.model_file \in files

\* C5: a pair with sufficient data whose fifteen combinations are all skipped
\* ends the run with the no-valid-model error and gets no record.
C5_AllSkippedRaisesNoValidModel ==
  /\ pc \in {"select", "done"} /\ AtPair /\ Evaluated(authority, prop_type) = {} =>
       /\ best_model = None
       /\ pc = "done" /\ Sufficient(authority, prop_type) =>
            /\ ret.status = "error"
            /\ ret.error = "No valid model found for " \o prop_type \o " in " \o authority
            /\ ret.value = None
  /\ pc = "done" =>
       /\ \A e \in Emitted : Evaluated(e[1], e[2]) # {}
       /\ \A r \in Returned : Evaluated(r.local_authority, r.property_type) # {}

\* the run stopped with the no-valid-model error at an all-cached pair after
\* it had completed other pairs
C5_Witness ==
  /\ pc = "done" /\ AtPair
  /\ Evaluated(authority, prop_type) = {} /\ Sufficient(authority, prop_type)
  /\ ret.status = "error"
  /\ ret.error = "No valid model found for " \o prop_type \o " in " \o authority
  /\ Emitted # {}

\* the insufficient-data error of a pair, raised at window w
InsufficientDataError(a, p, w) ==
  LET label == IF w = 5 THEN "all" ELSE ToString(WindowYears[w])
  IN IF WindowRowCount(a, w) < 4
     THEN "Not enough data for " \o p \o " in " \o a \o " with " \o label \o " years"
     ELSE "Not enough data after lag creation for " \o p \o " in " \o a \o " with "
            \o label \o " years"

\* C6: a window with fewer than 4 rows, or with fewer than forecast_horizon + 1
\* rows after lagging and dropping, is never passed on to the models: the run
\* reaches the models of a window, the next window or the selection only when
\* the windows so far were long enough, and it ends at the first short window
\* of a pair with the insufficient-data error, without a record for the pair.
\* An authority of 3 rows never gets past its first window.
C6_ShortWindowRaises ==
  /\ AtPair /\ pc = "model" => ~ShortWindow(authority, prop_type, window_i)
  /\ AtPair /\ pc = "window" =>
       \A u \in 1..(window_i - 1) : ~ShortWindow(authority, prop_type, u)
  /\ AtPair /\ pc = "select" => Sufficient(authority, prop_type)
  /\ AtPair /\ pc = "done" =>
       LET short == ShortWindows(authority, prop_type)
           w == CHOOSE v \in short : \A u \in short : v <= u
       IN short # {} =>
            /\ ret.status = "error"
            /\ ret.error = InsufficientDataError(authority, prop_type, w)
            /\ ret.value = None
  /\ AtPair /\ Cardinality(RowsOf(authority)) <= 3 =>
       /\ pc \in {"window", "done"}
       /\ window_i = 1
       /\ pc = "done" =>
            ret.error = "Not enough data for " \o prop_type \o " in " \o authority
                          \o " with 5 years"
  /\ pc = "done" =>
       /\ \A e \in Emitted : Sufficient(e[1], e[2])
       /\ \A r \in Returned : Sufficient(r.local_authority, r.property_type)

\* the run stopped at the second authority, which has 3 rows, with the
\* insufficient-data error, after the first authority's pairs were done
C6_Witness ==
  /\ pc = "done" /\ AtPair /\ authority_i = 2
  /\ Cardinality(RowsOf(authority)) = 3
  /\ ret.status = "error"
  /\ ret.error = "Not enough data for SemiDetachedIndex in " \o authority \o " with 5 years"
  /\ Emitted # {}

\* C7: a run in which a pair raises ends with that error and returns no
\* record, also none of the pairs completed before.
C7_ErrorReturnsNothing ==
  /\ ret.status = "error" => pc = "done" /\ ret.value = None
  /\ pc = "done" /\ AtPair /\ ~Sufficient(authority, prop_type) => ret.status = "error"
  /\ pc = "done" /\ AtPair /\ Evaluated(authority, prop_type) = {} => ret.status = "error"
  /\ ret.status = "ok" =>
       \A a \in InputAuthorities : \A p \in Range(Catalogue) :
         Sufficient(a, p) /\ Evaluated(a, p) # {}

\* the run ended with an error when pairs had been completed
C7_Witness == pc = "done" /\ ret.status = "error" /\ Cardinality(Emitted) >= 3

\* position of the first row of an authority in the input
FirstRow(a) == CHOOSE i \in RowsOf(a) : \A j \in RowsOf(a) : i <= j
\* rank of an authority by first appearance
AppearanceRank(a) == Cardinality({b \in InputAuthorities : FirstRow(b) <= FirstRow(a)})

\* C8: a run that returns over A authorities returns 4 x A records, the
\* authorities in order of first appearance and, within one, the property types
\* in catalogue order.
C8_FourRecordsPerAuthorityInOrder ==
  ret.status = "ok" =>
    /\ Len(ret.value) = 4 * Cardinality(InputAuthorities)
    /\ \A k \in DOMAIN ret.value :
         /\ ret.value[k].property_type = Catalogue[((k - 1) % 4) + 1]
         /\ ret.value[k].local_authority \in InputAuthorities
         /\ AppearanceRank(ret.value[k].local_authority) = ((k - 1) \div 4) + 1

\* a returned list of 8 records whose first authority is not the first of the
\* alphabet
C8_Witness ==
  /\ ret.status = "ok"
  /\ Len(ret.value) = 8
  /\ ret.value[1].local_authority = "Bath"
  /\ ret.value[5].local_authority = "Adur"

TwoDigits(n) == ToString(n \div 10) \o ToString(n % 10)
\* the month after an authority's latest row, as MM/YYYY
ExpectedForecastDate(a) ==
  LET n == LatestMonth(a) + 1
  IN TwoDigits((n % 12) + 1) \o "/" \o ToString(n \div 12)

\* C9: the forecast date of every record is the month after the authority's
\* latest row, as MM/YYYY with a two-digit month, January of the next year
\* after a December, whichever window and family won.
C9_ForecastDateIsNextMonth ==
  pc = "done" =>
    /\ \A e \in Emitted : e[3].forecast_date = ExpectedForecastDate(e[1])
    /\ \A r \in Returned : r.forecast_date = ExpectedForecastDate(r.local_authority)

\* a returned record of an authority whose latest row is of December 2024
C9_Witness ==
  \E r \in Returned :
    /\ LatestMonth(r.local_authority) = 2024 * 12 + 11
    /\ r.forecast_date = "01/2025"

OutputFields ==
  {"local_authority", "property_type", "mae", "mape", "forecast", "forecast_date",
   "best_model", "best_time_window", "model_file", "training_date"}

\* C10: every returned record carries the ten output fields.
C10_RecordHasTenFields ==
  \A r \in Returned : DOMAIN r = OutputFields

\* the record's window of a combination as the output contract has it: the
\* years, or the literal "all" for the unlimited window
ContractWindowOf(c) == IF c[1] = 5 THEN Some("all") ELSE Some(WindowYears[c[1]])

\* C11: the best window of every returned record is a number of years or the
\* literal "all"; it is "all" when the unlimited window won.
C11_BestWindowIsYearsOrAll ==
  \A r \in Returned :
    /\ r.best_time_window # None
    /\ r.best_time_window =
         ContractWindowOf(FirstMinimal(r.local_authority, r.property_type))

\* the input has no record, or its records lack the date, the region or one
\* of the four property types
Malformed == data = <<>> \/ ~WellFormed
LacksProperty(p) == \E i \in DOMAIN data : p \notin DOMAIN data[i].cols

\* C12: an empty dataset, a dataset without Date or RegionName and a dataset
\* lacking one of the four property-type columns never return: the run ends
\* with an error and no records, the validation error of the case when the run
\* comes to it.
C12_MalformedInputFails ==
  /\ Malformed => ret.status # "ok"
  /\ Malformed /\ pc = "done" => ret.status = "error" /\ ret.value = None
  /\ pc = "done" /\ data = <<>> => ret.error = "No data provided"
  /\ pc = "done" /\ data # <<>> /\ (\E i \in DOMAIN data : "Date" \notin DOMAIN data[i]) =>
       ret.error = "Missing required columns: {'Date'}"
  /\ pc = "done" /\ data # <<>> /\ (\E i \in DOMAIN data : "RegionName" \notin DOMAIN data[i]) =>
       ret.error = "Missing required columns: {'RegionName'}"
  /\ pc = "done" /\ authority_i \in DOMAIN authorities /\ prop_i \in DOMAIN Catalogue
        /\ LacksProperty(Catalogue[prop_i]) =>
       ret.error = "Missing '" \o Catalogue[prop_i] \o "' for authority: " \o authority

\* the run ended at the fourth property type, which the input lacks, after
\* three pairs were completed
C12_Witness ==
  /\ pc = "done" /\ LacksProperty("FlatIndex")
  /\ ret.status = "error"
  /\ ret.error = "Missing 'FlatIndex' for authority: Adur"
  /\ Cardinality(Emitted) = 3

\* the month of a row of a frame, counted from year 0
MonthOf(r) == r.Date.y * 12 + r.Date.m - 1

\* the window filter has acted for the current window: its models are next, or
\* the run stopped at the window for lack of rows
WindowFiltered ==
  /\ AtPair /\ window_i \in DOMAIN time_windows
  /\ \/ pc = "model"
     \/ /\ pc = "done" /\ ret.status = "error"
        /\ ret.error \in {NotEnoughData(prop_type, authority, time_window),
                          NotEnoughAfterLag(prop_type, authority, time_window)}

\* the lagging has acted on the sub-series of the current window
WindowLagged == AtPair /\ pc = "model" /\ model_i = 1

\* C13: every row of the lagged frame is a row i > 3 of the sub-series handed
\* to lagging, in the same order, and its lag-k column of each listed column
\* holds that column's value at row i - k of the sub-series, for k = 1, 2, 3; the
\* first three rows of the sub-series are not in the lagged frame.
C13_LagColumnsHoldEarlierRows ==
  WindowLagged =>
    \E f \in [DOMAIN df_time -> 4..Len(df_window)] :
      /\ \A i, j \in DOMAIN df_time : i < j => f[i] < f[j]
      /\ \A i \in DOMAIN df_time :
           /\ df_time[i].Date = df_window[f[i]].Date
           /\ df_time[i].RegionName = df_window[f[i]].RegionName
           /\ \A c \in {"bank_rate", prop_type} :
                /\ df_time[i].cols[c] = df_window[f[i]].cols[c]
                /\ \A k \in 1..3 :
                     df_time[i].cols[c \o "_lag" \o ToString(k)] = df_window[f[i] - k].cols[c]

\* a sub-series of five rows gave a lagged frame of two, the first of them
\* carrying the values of the three rows before it
C13_Witness ==
  /\ WindowLagged /\ prop_type = "FlatIndex"
  /\ Len(df_window) = 5 /\ Len(df_time) = 2
  /\ df_time[1].Date = df_window[4].Date
  /\ df_time[1].cols["FlatIndex_lag1"] = Some(103)
  /\ df_time[1].cols["FlatIndex_lag2"] = Some(102)
  /\ df_time[1].cols["FlatIndex_lag3"] = Some(101)

\* the rows of the sorted series on or after the window's first month
InWindow(r) ==
  LET latest == CHOOSE n \in {MonthOf(df_auth_prop[i]) : i \in DOMAIN df_auth_prop} :
                  \A i \in DOMAIN df_auth_prop : MonthOf(df_auth_prop[i]) <= n
  IN window_i = 5 \/ MonthOf(r) >= latest - 12 * WindowYears[window_i]

\* C14: the sub-series of a numeric window w holds exactly the rows of the
\* authority's sorted series whose month is on or after the latest month minus
\* w years, in the order of the series, the row of exactly that month included;
\* the sub-series of the unlimited window is the whole series.
C14_WindowKeepsRowsFromBoundary ==
  WindowFiltered =>
    /\ df_window = SelectSeq(df_auth_prop, InWindow)
    /\ window_i = 5 => df_window = df_auth_prop
    /\ Len(df_auth_prop) = Cardinality(RowsOf(authority))
    /\ Len(df_window) = WindowRowCount(authority, window_i)

\* the 5-year window of a series with a row exactly 60 months before the
\* latest and a row before that: the first is kept, the second is not
C14_Witness ==
  /\ WindowFiltered /\ window_i = 1
  /\ Len(df_auth_prop) = 5 /\ Len(df_window) = 4
  /\ MonthOf(df_window[1]) = MonthOf(df_window[4]) - 60
  /\ MonthOf(df_auth_prop[1]) = MonthOf(df_window[4]) - 80

\* the artifact name of a combination with the name ending at _model
SuffixlessArtifactOf(a, p, c) ==
  "models/" \o a \o "_" \o p \o "_" \o Families[c[2]] \o "_"
    \o (IF c[1] = 5 THEN "all" ELSE ToString(WindowYears[c[1]])) \o "_model"

\* the combinations fitted so far for the current pair
FittedOfPair ==
  {<<fitted[k].window_i, fitted[k].model_i>> :
     k \in {j \in DOMAIN fitted : fitted[j].authority = authority
                                   /\ fitted[j].prop_type = prop_type}}

\* the combination a record names as its winner
WinnerOf(r) ==
  CHOOSE c \in Combos : r.best_model = Families[c[2]] /\ r.best_time_window = WindowOf(c)

\* C15 as stated: the path checked for existence and the path of the record are
\* models/{authority}_{propertyType}_{modelFamily}_{window-or-all}_model.
C15_PathsEndAtModel ==
  /\ pc = "select" /\ AtPair =>
       FittedOfPair = {c \in Combos : SuffixlessArtifactOf(authority, prop_type, c) \notin files}
  /\ pc = "done" =>
       \A r \in Returned :
         r.model_file = SuffixlessArtifactOf(r.local_authority, r.property_type, WinnerOf(r))

\* C15, amended: the path checked for existence and the path of the record are
\* models/{authority}_{propertyType}_{modelFamily}_{window-or-all}_model.pkl,
\* the same path for the same key: the combinations fitted for a pair are those
\* with no file of that name, and the record's path is that name for its winner,
\* the name of a file that was found absent.
C15_PathsEndAtModelPkl ==
  /\ pc = "select" /\ AtPair =>
       FittedOfPair = {c \in Combos : ArtifactOf(authority, prop_type, c) \notin files}
  /\ pc = "done" =>
       \A r \in Returned :
         /\ r.model_file = ArtifactOf(r.local_authority, r.property_type, WinnerOf(r))
         /\ r.model_file \notin files

\* a returned record whose winner is of the unlimited window, in a run that
\* found the files of other combinations of the pair
C15_Witness ==
  \E r \in Returned :
    /\ r.best_time_window = None
    /\ r.model_file = "models/Adur_FlatIndex_" \o r.best_model \o "_all_model.pkl"
    /\ Evaluated(r.local_authority, r.property_type) # Combos

\* a training job is computing: the engine was entered and has not returned
TrainingJobComputing == pc \notin {"start", "done"}

\* C16: while a training job is computing, a handler of another request on
\* the same event loop can take a step.
C16_OtherHandlersProgressDuringTraining ==
  TrainingJobComputing /\ served < MaxServed => ENABLED OtherHandler

\* the rows of a window that are complete after lagging (those LaggedRowCount
\* counts)
CompleteRows(a, p, w) ==
  LET rs == WindowRows(a, w)
      pos == Positions(rs)
      clean == {i \in rs : \A c \in DOMAIN data[i].cols : data[i].cols[c] # NaN}
      usable == {i \in rs : data[i].cols[p] # NaN /\ data[i].cols["bank_rate"] # NaN}
  IN {i \in clean :
        /\ pos[i] > 3
        /\ \A j \in rs \ usable : ~(pos[j] < pos[i] /\ pos[j] >= pos[i] - 3)}
\* the forecast_horizon chronologically latest of a set of rows
HeldOut(rows) ==
  {i \in rows : Cardinality({j \in rows : MonthNo(j) > MonthNo(i)}) < forecast_horizon}

\* C17: the instance best_model refers to, from the moment it became the best
\* to the forecast, is fitted, carries the fit of the current pair for the best
\* window and family and no later one; when the forecast is made that fit is
\* the one of the first combination of minimal MAPE, on the complete rows of
\* its window without the forecast_horizon latest, all of them earlier than
\* the rows held out.
C17_ForecastUsesWinnersOwnFit ==
  /\ AtPair /\ pc \in {"window", "model", "select"} /\ best_model # None =>
       LET inst == heap[best_model[1]]
       IN /\ inst.fit # None
          /\ inst.fit[1].authority = authority
          /\ inst.fit[1].prop_type = prop_type
          /\ time_windows[inst.fit[1].window_i] = best_time_window
          /\ model_names[inst.fit[1].model_i] = inst.name
          /\ Some(inst.name) = best_model_name
  /\ AtPair /\ pc = "select" /\ best_model # None =>
       LET fit == heap[best_model[1]].fit[1]
           c == FirstMinimal(authority, prop_type)
           rows == CompleteRows(authority, prop_type, c[1])
           train == rows \ HeldOut(rows)
       IN /\ <<fit.window_i, fit.model_i>> = c
          /\ Len(fit.train_dates) = Cardinality(train)
          /\ Range(fit.train_dates) = {data[i].Date : i \in train}
          /\ \A k \in DOMAIN fit.train_dates : \A i \in HeldOut(rows) :
               fit.train_dates[k].y * 12 + fit.train_dates[k].m - 1 < MonthNo(i)

\* the forecast of a later pair is about to be made by an instance of a
\* numeric window, after which instances of later windows were fitted
C17_Witness ==
  /\ AtPair /\ pc = "select" /\ best_model # None /\ prop_i > 1
  /\ heap[best_model[1]].fit[1].window_i < 5
  /\ Len(heap[best_model[1]].fit[1].train_dates) >= 1
  /\ \E id \in DOMAIN heap :
       /\ id > best_model[1] /\ heap[id].fit # None
       /\ heap[id].name = heap[best_model[1]].name

\* the sub-series of a window of the catalogue, and what lagging leaves of it
SubSeries(w) == FilterWindow(df_auth_prop, last_date[1], time_windows[w])
LaggedSubSeries(w) == DropNa(AddLags(SubSeries(w), prop_type))

\* the run stopped at the current pair for lack of rows
InsufficientDataRaised ==
  /\ pc = "done" /\ ret.status = "error" /\ AtPair /\ window_i \in DOMAIN time_windows
  /\ \E w \in Range(time_windows) :
       ret.error \in {NotEnoughData(prop_type, authority, w),
                      NotEnoughAfterLag(prop_type, authority, w)}

\* C18: for every pair the number of rows of the sub-series, and of the rows
\* left after lagging and dropping, does not decrease from a window of the
\* catalogue to the next; an insufficient-data error of a pair is raised at
\* the first window, the one of 5 years, and no model has been fitted for the
\* pair when it is raised.
C18_RowsGrowSoErrorsComeFirst ==
  /\ AtPair /\ pc = "window" /\ window_i = 1 =>
       \A w \in 1..(Len(time_windows) - 1) :
         /\ Len(SubSeries(w)) <= Len(SubSeries(w + 1))
         /\ Len(LaggedSubSeries(w)) <= Len(LaggedSubSeries(w + 1))
  /\ AtPair /\ pc = "window" /\ window_i = 1 =>
       \A w \in 1..4 :
         /\ WindowRowCount(authority, w) <= WindowRowCount(authority, w + 1)
         /\ LaggedRowCount(authority, prop_type, w) <= LaggedRowCount(authority, prop_type, w + 1)
  /\ InsufficientDataRaised =>
       /\ window_i = 1
       /\ ret.error \in {NotEnoughData(prop_type, authority, Some(5)),
                         NotEnoughAfterLag(prop_type, authority, Some(5))}
       /\ FittedOfPair = {}

\* three pairs were completed and the fourth stopped at its 5-year window, one
\* complete row short after lagging
C18_Witness ==
  /\ InsufficientDataRaised
  /\ ret.error = "Not enough data after lag creation for FlatIndex in Adur with 5 years"
  /\ window_i = 1 /\ prop_i = 4
  /\ Cardinality(Emitted) = 3
  /\ Len(df_window) = 5 /\ Len(df_time) = 1

====
